---- MODULE Spec2Model ----
(***************************************************************************)
(* NYC 311 analytics agent: the LangGraph workflow of backend/agent.py     *)
(* (plan -> generate code -> execute, retried -> decide visualization ->   *)
(* generate visualization, retried -> format response), the two sandboxes  *)
(* of backend/tools.py it calls, and process_query around it.              *)
(*                                                                         *)
(* Texts are TLA+ strings; the replies of the Gateway that the code parses *)
(* (code replies, the YES/NO decision) are sequences of one-character      *)
(* strings, parsed as the Python code parses them.  Python's None is the   *)
(* marker None, different from every text of the model.                    *)
(***************************************************************************)
EXTENDS Integers, Sequences, FiniteSets, TLC

VARIABLES
    pc,      \* the node of the graph about to run, "END", "except", "returned"
    state,   \* the AgentState threaded through the graph
    raised,  \* str(e) of the exception that left graph.invoke, "" if none
    result,  \* the dict process_query returned, None before it returns
    log,     \* observer: counts of the calls made so far and their last outcomes
    df,      \* self.df of DataAnalysisTools, the dataset the tools object holds
    figures, \* pyplot's process-wide registry of open figures, the last one current
    calls    \* the visualization sandbox calls in progress, one per concurrent query

vars == <<pc, state, raised, result, log, df, figures, calls>>

\* ------------------------------------------------------------------ bounds
\* The observer's counters saturate here (above every count the code reaches).
CountCap == 12

\* -------------------------------------------------------- program constants
\* agent.py:199  state["retry_count"] < 2
MaxCodeRetries == 2
\* agent.py:420  state["visualization_retry_count"] < 2
MaxVizRetries == 2

None == "None"

\* Python truthiness of a str-or-None value (agent.py:199, 246, 285, 420, 432, 501)
Truthy(x) == x # "" /\ x # None

\* --------------------------------------------------------- text (str) helpers
Whitespace == {" ", "\n", "\t"}

\* The backquote character, written "~" (no text of the model holds a tilde).
Backquote == "~"

\* three backquotes, the fence of a code block; and the fence tagged python
Fence == <<Backquote, Backquote, Backquote>>
PyFence == Fence \o <<"p", "y", "t", "h", "o", "n">>

\* sub in s
Contains(s, sub) ==
    \E i \in 1..(Len(s) - Len(sub) + 1) : SubSeq(s, i, i + Len(sub) - 1) = sub

\* s.find(sub) + 1: the first position where sub occurs in s, 0 if none
Find(s, sub) ==
    IF Contains(s, sub)
    THEN CHOOSE i \in 1..(Len(s) - Len(sub) + 1) :
            /\ SubSeq(s, i, i + Len(sub) - 1) = sub
            /\ \A j \in 1..(i - 1) : SubSeq(s, j, j + Len(sub) - 1) # sub
    ELSE 0

\* s.split(sep)[0]: the text before the first sep, all of s if there is none
split_0(s, sep) ==
    IF Contains(s, sep) THEN SubSeq(s, 1, Find(s, sep) - 1) ELSE s

\* s.split(sep)[1], for s containing sep: the text between the first sep and
\* the next one (to the end if there is no next one)
split_1(s, sep) ==
    split_0(SubSeq(s, Find(s, sep) + Len(sep), Len(s)), sep)

RECURSIVE lstrip(_)
lstrip(s) == IF s # <<>> /\ Head(s) \in Whitespace THEN lstrip(Tail(s)) ELSE s

RECURSIVE rstrip(_)
rstrip(s) ==
    IF s # <<>> /\ s[Len(s)] \in Whitespace
    THEN rstrip(SubSeq(s, 1, Len(s) - 1))
    ELSE s

\* s.strip()
strip(s) == rstrip(lstrip(s))

\* c.upper() for one character
UpperChar(c) ==
    CASE c = "y" -> "Y"
      [] c = "e" -> "E"
      [] c = "s" -> "S"
      [] c = "n" -> "N"
      [] c = "o" -> "O"
      [] OTHER -> c

\* s.upper()
upper(s) == [i \in 1..Len(s) |-> UpperChar(s[i])]

\* the str value of a sequence of characters
RECURSIVE Str(_)
Str(s) == IF s = <<>> THEN "" ELSE Head(s) \o Str(Tail(s))

\* "# Extract code" (agent.py:174-181, 233-240, 396-403)
extract_code(content) ==
    LET code == IF Contains(content, PyFence)
                THEN split_0(split_1(content, PyFence), Fence)
                ELSE IF Contains(content, Fence)
                     THEN split_0(split_1(content, Fence), Fence)
                     ELSE content
    IN  Str(strip(code))

\* the decision read without upper()
decision_is_yes_case_sensitive(content) ==
    Contains(strip(content), <<"Y", "E", "S">>)

\* "YES" in response.content.strip().upper()   (agent.py:277-279)
decision_is_yes(content) == Contains(upper(strip(content)), <<"Y", "E", "S">>)

\* ------------------------------------------------- backend/tools.py sandboxes
\* self.dataset_info, computed once in __init__ (tools.py:24, 57-59)
get_dataset_context == "Dataset Shape: ..."

\* traceback.format_exc() (tools.py:120, 167)
TracebackText == "Traceback (most recent call last): ..."

\* tools.py:88
NoResultMessage == "Code executed but no result was stored in \"result\" variable"

\* What exec(code, namespace) did (tools.py:81-82): it bound result to a value
\* of some type, rendered as text; it left result None; or it raised an
\* Exception of class type with str(e) = text.
ExecBehaviours ==
    { [kind |-> "value", type |-> "int",    text |-> "42"],
      [kind |-> "value", type |-> "Series", text |-> "Noise 10 / Heat 7"],
      [kind |-> "none",  type |-> None,     text |-> None],
      [kind |-> "raise", type |-> "ZeroDivisionError", text |-> "division by zero"],
      [kind |-> "raise", type |-> "KeyError", text |-> "Agency"],
      [kind |-> "raise", type |-> "AssertionError", text |-> ""] }

\* What exec(viz_code, namespace) and plt.savefig did (tools.py:151-157): the
\* code opened the figures pics and finished, and savefig rendered an image
\* ("image") or raised ("render_raise"); or the code raised an Exception after
\* opening pics ("raise").
VizBehaviours ==
    { [kind |-> "image", type |-> None, text |-> None, pics |-> <<"bar chart">>],
      [kind |-> "image", type |-> None, text |-> None, pics |-> <<>>],
      [kind |-> "raise", type |-> "KeyError", text |-> "count",
       pics |-> <<"empty axes">>],
      [kind |-> "raise", type |-> "ValueError", text |-> "shape mismatch",
       pics |-> <<>>],
      [kind |-> "render_raise", type |-> "ValueError",
       text |-> "Image size is too large", pics |-> <<"huge chart">>] }

\* the run beh of code generated for query: its figures chart that query's data
RunOf(query, beh) ==
    [beh EXCEPT !.pics = [i \in DOMAIN @ |-> @[i] \o " for " \o query]]

\* self.df as loaded (tools.py:23): <<column, contents>> pairs
Dataset == {<<"Complaint Type", "loaded">>, <<"Borough", "loaded">>}

\* What the generated code does with the name df: only reads it; binds the
\* name anew (df = df[...]); drops a column in place; assigns a column.
DfOps == {"read", "rebind", "drop", "assign"}

\* the DataFrame object the name df was bound to, after the code ran op
apply_op(value, op) ==
    CASE op = "drop" -> {c \in value : c[1] # "Borough"}
      [] op = "assign" ->
            {c \in value : c[1] # "Borough"} \union {<<"Borough", "edited">>}
      [] OTHER -> value

\* namespace['df'] bound to self.df itself
namespace_df_alias(d) == [object |-> "self.df", value |-> d]

\* 'df': self.df.copy() (tools.py:76, 143): another object with the same data
namespace_df(d) == [object |-> "copy", value |-> d]

\* self.df once exec ran code doing op on its namespace (tools.py:73-81, 140-151)
df_after_exec(d, op) ==
    LET bound == namespace_df(d)
    IN  IF bound.object = "self.df" THEN apply_op(bound.value, op) ELSE d

\* plt.gcf() inside plt.savefig (tools.py:155): with no figure open a blank one
\* is opened; the current figure is the last one opened
figures_at_savefig(figs) == IF figs = <<>> THEN <<"blank">> ELSE figs

current_figure(figs) == figures_at_savefig(figs)[Len(figures_at_savefig(figs))]

\* base64.b64encode(buffer.read()).decode() of the rendered figure (tools.py:154-157)
encode(fig) == "b64:" \o fig

\* the except clause without its plt.close('all')
close_in_except_missing(figs) == figs

\* plt.close('all') in the except clause (tools.py:170)
close_in_except(figs) == <<>>

\* plt.close('all') after the image was encoded (tools.py:158)
close_after_savefig(figs) == <<>>

\* the message without the exception's class and the trace
error_msg_bare(beh) == beh.text

\* f"{type(e).__name__}: {str(e)}\n{traceback.format_exc()}" (tools.py:120, 167)
error_msg(beh) == beh.type \o ": " \o beh.text \o "\n" \o TracebackText

\* execute_pandas_code without the test result is None
execute_pandas_code_unchecked(code, beh) ==
    IF beh.kind = "raise"
    THEN [success |-> FALSE, result |-> None, error |-> error_msg(beh),
          result_type |-> None]
    ELSE [success |-> TRUE, result |-> beh.text, result_data |-> beh.text,
          error |-> None, result_type |-> IF beh.kind = "none" THEN "NoneType"
                                          ELSE beh.type]

\* DataAnalysisTools.execute_pandas_code (tools.py:61-126)
execute_pandas_code(code, beh) ==
    IF beh.kind = "raise"
    THEN [success |-> FALSE, result |-> None, error |-> error_msg(beh),
          result_type |-> None]
    ELSE IF beh.kind = "none"
    THEN [success |-> FALSE, result |-> None, error |-> NoResultMessage,
          result_type |-> None]
    ELSE [success |-> TRUE, result |-> beh.text, result_data |-> beh.text,
          error |-> None, result_type |-> beh.type]

\* DataAnalysisTools.execute_visualization_code (tools.py:128-176), called
\* with the registry as figures holds it
execute_visualization_code(viz_code, beh) ==
    IF beh.kind \in {"raise", "render_raise"}
    THEN [success |-> FALSE, image |-> None, error |-> error_msg(beh)]
    ELSE [success |-> TRUE, image |-> encode(current_figure(figures \o beh.pics)),
          error |-> None]

\* the registry when execute_visualization_code returns (tools.py:151-158, 166-170)
figures_after_call(figs, beh) ==
    IF beh.kind = "raise"
    THEN close_in_except(figs \o beh.pics)
    ELSE IF beh.kind = "render_raise"
    THEN close_in_except(figures_at_savefig(figs \o beh.pics))
    ELSE close_after_savefig(figures_at_savefig(figs \o beh.pics))

\* ------------------------------------------------------ the Gateway's replies
\* response.content of self.llm.invoke(messages), per step; str(e) when it raises
Queries == {"top complaint types?", "total count?"}
PlanReplies == {"plan: value_counts"}
CodeReplies ==
    { <<"r", "=", "1">>,
      PyFence \o <<"\n", "r", "=", "1", "\n">> \o Fence,
      Fence \o <<"\n", "r", "=", "2", "\n">> \o Fence \o <<" ", "o", "k">>,
      Fence \o <<"p", "y", "\n", "r", "=", "3", "\n">> \o Fence }
VizCodeReplies ==
    { <<"p", "l", "t">>,
      PyFence \o <<"\n", "p", "l", "t", ".", "b", "a", "r", "\n">> \o Fence }
DecisionReplies ==
    { <<"Y", "E", "S">>, <<" ", "y", "e", "s", ".", "\n">>, <<"N", "O">>,
      <<"n", "o", "t", " ", "y", "e", "t">>, <<>> }
NarrationReplies == {"Noise is the top complaint type."}
GatewayFaults == {"Connection error.", "Rate limit reached"}

\* -------------------------------------------------- backend/agent.py workflow
EmptyDict == [k \in {} |-> None]

\* initial_state of process_query (agent.py:480-494)
initial_state(query) ==
    [ query |-> query,
      dataset_context |-> "",
      analysis_plan |-> "",
      pandas_code |-> "",
      execution_result |-> EmptyDict,
      needs_visualization |-> FALSE,
      visualization_code |-> "",
      visualization_image |-> "",
      visualization_error |-> "",
      visualization_retry_count |-> 0,
      response |-> "",
      error |-> "",
      retry_count |-> 0 ]

\* plan_analysis once the Gateway replied (agent.py:126-134)
plan_analysis(s, content) ==
    [s EXCEPT !.analysis_plan = content,
              !.dataset_context = get_dataset_context,
              !.retry_count = 0,
              !.visualization_retry_count = 0,
              !.needs_visualization = FALSE,
              !.visualization_error = ""]

\* generate_code once the Gateway replied (agent.py:172-182)
generate_code(s, content) == [s EXCEPT !.pandas_code = extract_code(content)]

\* execute_code without the else branch that clears error
execute_code_sticky(s, beh) ==
    LET execution_result == execute_pandas_code(s.pandas_code, beh)
    IN  [s EXCEPT !.execution_result = execution_result,
                  !.error = IF ~execution_result.success
                            THEN execution_result.error
                            ELSE s.error]

\* execute_code keeping the outcome of the first attempt
execute_code_keeps_first_result(s, beh) ==
    LET execution_result == execute_pandas_code(s.pandas_code, beh)
    IN  [s EXCEPT !.execution_result = IF @ = EmptyDict THEN execution_result
                                       ELSE @,
                  !.error = IF ~execution_result.success
                            THEN execution_result.error
                            ELSE ""]

\* execute_code (agent.py:184-195)
execute_code(s, beh) ==
    LET execution_result == execute_pandas_code(s.pandas_code, beh)
    IN  [s EXCEPT !.execution_result = execution_result,
                  !.error = IF ~execution_result.success
                            THEN execution_result.error
                            ELSE ""]

\* should_retry with the bound off by one
should_retry_off_by_one(s) ==
    IF Truthy(s.error) /\ s.retry_count <= MaxCodeRetries THEN "retry" ELSE "continue"

\* should_retry (agent.py:197-201)
should_retry(s) ==
    IF Truthy(s.error) /\ s.retry_count < MaxCodeRetries THEN "retry" ELSE "continue"

\* retry_code assigning the counter instead of incrementing it
retry_code_enter_assigns(s) == [s EXCEPT !.retry_count = 1]

\* retry_code up to the Gateway call (agent.py:206)
retry_code_enter(s) == [s EXCEPT !.retry_count = @ + 1]

\* retry_code once the Gateway replied (agent.py:203-241)
retry_code(s, content) ==
    [retry_code_enter(s) EXCEPT !.pandas_code = extract_code(content)]

\* decide_visualization without its early return
decide_skips_gateway_never(s) == FALSE

\* decide_visualization returns before the Gateway call (agent.py:246-248)
decide_skips_gateway(s) == Truthy(s.error)

\* decide_visualization (agent.py:243-281); content is read only when the
\* Gateway was called
decide_visualization(s, content) ==
    IF decide_skips_gateway(s)
    THEN [s EXCEPT !.needs_visualization = FALSE]
    ELSE [s EXCEPT !.needs_visualization = decision_is_yes(content)]

\* should_visualize (agent.py:283-287)
should_visualize(s) ==
    IF s.needs_visualization /\ ~Truthy(s.error) THEN "visualize" ELSE "skip"

\* generate_visualization that drops the error of a failed attempt
generate_visualization_drops_error(s, content, beh) ==
    LET viz_code == extract_code(content)
        res == execute_visualization_code(viz_code, beh)
    IN  [s EXCEPT !.visualization_code = viz_code,
                  !.visualization_image = IF res.success THEN res.image ELSE "",
                  !.visualization_error = ""]

\* generate_visualization once the Gateway replied (agent.py:394-416)
generate_visualization(s, content, beh) ==
    LET viz_code == extract_code(content)
        res == execute_visualization_code(viz_code, beh)
    IN  IF res.success
        THEN [s EXCEPT !.visualization_code = viz_code,
                       !.visualization_image = res.image,
                       !.visualization_error = ""]
        ELSE [s EXCEPT !.visualization_code = viz_code,
                       !.visualization_image = "",
                       !.visualization_error = res.error]

\* should_retry_visualization with the bound off by one
should_retry_visualization_off_by_one(s) ==
    IF Truthy(s.visualization_error) /\ s.visualization_retry_count <= MaxVizRetries
    THEN "retry"
    ELSE "continue"

\* should_retry_visualization (agent.py:418-422)
should_retry_visualization(s) ==
    IF Truthy(s.visualization_error) /\ s.visualization_retry_count < MaxVizRetries
    THEN "retry"
    ELSE "continue"

\* retry_visualization that also starts the code retries afresh
retry_visualization_resets_code_retries(s) ==
    [s EXCEPT !.visualization_retry_count = @ + 1, !.retry_count = 0]

\* retry_visualization that forgets the increment
retry_visualization_no_increment(s) == s

\* retry_visualization (agent.py:424-427)
retry_visualization(s) == [s EXCEPT !.visualization_retry_count = @ + 1]

\* the apology of format_response (agent.py:433-437)
ApologyTemplate(error) ==
    "I encountered an error while analyzing the data:\n\n" \o error
        \o "\n\nPlease try rephrasing your question or ask something else about the NYC 311 dataset."

\* format_response without its early return
format_skips_gateway_never(s) == FALSE

\* format_response returns before the Gateway call (agent.py:432-438)
format_skips_gateway(s) == Truthy(s.error)

\* format_response (agent.py:429-468); content is read only when the Gateway
\* was called
format_response(s, content) ==
    IF format_skips_gateway(s)
    THEN [s EXCEPT !.response = ApologyTemplate(s.error)]
    ELSE [s EXCEPT !.response = content]

\* process_query returning the visualization code whether or not an image exists
result_of_exposes_code(final_state) ==
    [ response |-> final_state.response,
      visualization |-> IF Truthy(final_state.visualization_image)
                        THEN final_state.visualization_image
                        ELSE None,
      code_executed |-> final_state.pandas_code,
      visualization_code |-> final_state.visualization_code,
      success |-> ~Truthy(final_state.error) ]

\* process_query counting a failed visualization as a failed query
result_of_strict(final_state) ==
    [ response |-> final_state.response,
      visualization |-> IF Truthy(final_state.visualization_image)
                        THEN final_state.visualization_image
                        ELSE None,
      code_executed |-> final_state.pandas_code,
      visualization_code |-> IF Truthy(final_state.visualization_image)
                             THEN final_state.visualization_code
                             ELSE None,
      success |-> ~Truthy(final_state.error)
                  /\ ~Truthy(final_state.visualization_error) ]

\* the dict process_query returns from the final state (agent.py:499-505)
result_of(final_state) ==
    [ response |-> final_state.response,
      visualization |-> IF Truthy(final_state.visualization_image)
                        THEN final_state.visualization_image
                        ELSE None,
      code_executed |-> final_state.pandas_code,
      visualization_code |-> IF Truthy(final_state.visualization_image)
                             THEN final_state.visualization_code
                             ELSE None,
      success |-> ~Truthy(final_state.error) ]

\* f"An unexpected error occurred: {str(e)}" (agent.py:509)
UnexpectedMessage(e) == "An unexpected error occurred: " \o e

\* the except clause leaving success at its default
result_of_exception_default_success(e) ==
    [ response |-> UnexpectedMessage(e),
      visualization |-> None,
      code_executed |-> None,
      visualization_code |-> None,
      success |-> TRUE ]

\* the dict process_query returns from its except clause (agent.py:507-514)
result_of_exception(e) ==
    [ response |-> UnexpectedMessage(e),
      visualization |-> None,
      code_executed |-> None,
      visualization_code |-> None,
      success |-> FALSE ]

\* state['execution_result']['result'][:500] raises (agent.py:314, 351) when
\* the dict has no 'result' key (KeyError) or holds None there (TypeError)
preview_raises(s) ==
    \/ "result" \notin DOMAIN s.execution_result
    \/ s.execution_result.result = None

PreviewError(s) ==
    IF "result" \notin DOMAIN s.execution_result
    THEN "'result'"
    ELSE "'NoneType' object is not subscriptable"

\* a graph that runs the raising node again
on_exception_retry(node) == node

\* Where an exception raised inside a node goes: no node catches it and the
\* graph has no retry policy, so it leaves graph.invoke for the except clause
\* of process_query (agent.py:496-497, 507)
on_exception(node) == "except"

\* ------------------------------------------------------------------ observer
Bump(n) == IF n < CountCap THEN n + 1 ELSE n

InitLog ==
    [ exec_attempts |-> 0,      \* calls of execute_pandas_code
      viz_steps |-> 0,          \* runs of generate_visualization
      viz_calls |-> 0,          \* calls of execute_visualization_code
      gateway_calls |-> 0,      \* calls of self.llm.invoke
      decide_with_error |-> FALSE, \* decide_visualization ran with error set
      last_exec |-> EmptyDict,  \* what execute_pandas_code returned last
      last_viz |-> EmptyDict,   \* what execute_visualization_code returned last
      fault_step |-> "",        \* the node an exception was raised in
      last_beh |-> EmptyDict,   \* what the code did in the last execute_pandas_code
      last_viz_beh |-> EmptyDict, \* ... in the last execute_visualization_code
      last_reply |-> <<>>,      \* the Gateway's last code reply
      last_code |-> "",         \* the code the last execute_pandas_code was given
      last_decision |-> <<>>,   \* <<reply>> decide_visualization just read
      df_touched |-> FALSE,     \* some generated code dropped, assigned or rebound df
      seen_df |-> Dataset ]     \* the data the last sandbox call bound to df

\* no visualization sandbox call runs beside the query's own
NoCalls == [q \in {} |-> EmptyDict]

Init ==
    /\ pc = "plan_analysis"
    /\ \E query \in Queries : state = initial_state(query)
    /\ raised = ""
    /\ result = None
    /\ log = InitLog
    /\ df = Dataset
    /\ figures = <<>>
    /\ calls = NoCalls

\* a node raises e, leaving the state dict as s and the observer as l
Raise(node, s, l, e) ==
    /\ pc' = on_exception(node)
    /\ state' = s
    /\ raised' = e
    /\ log' = [l EXCEPT !.fault_step = node]
    /\ UNCHANGED <<result, df, figures, calls>>

Called(l) == [l EXCEPT !.gateway_calls = Bump(@)]

\* the node after decide_visualization runs: its reply is no longer at hand
Entered(l) == [l EXCEPT !.last_decision = <<>>]

\* node plan_analysis, edge to generate_code (agent.py:62-63, 103-134)
PlanAnalysis ==
    /\ pc = "plan_analysis"
    /\ \/ \E content \in PlanReplies :
            /\ state' = plan_analysis(state, content)
            /\ pc' = "generate_code"
            /\ log' = Called(log)
            /\ UNCHANGED <<raised, result, df, figures, calls>>
       \/ \E e \in GatewayFaults : Raise("plan_analysis", state, Called(log), e)

\* node generate_code, edge to execute_code (agent.py:64, 136-182)
GenerateCode ==
    /\ pc = "generate_code"
    /\ \/ \E content \in CodeReplies :
            /\ state' = generate_code(state, content)
            /\ pc' = "execute_code"
            /\ log' = [Called(log) EXCEPT !.last_reply = content]
            /\ UNCHANGED <<raised, result, df, figures, calls>>
       \/ \E e \in GatewayFaults : Raise("generate_code", state, Called(log), e)

\* node execute_code and its conditional edge (agent.py:66-74, 184-201)
ExecuteCode ==
    /\ pc = "execute_code"
    /\ \E beh \in ExecBehaviours, op \in DfOps :
            /\ state' = execute_code(state, beh)
            /\ pc' = IF should_retry(state') = "retry"
                     THEN "retry_code"
                     ELSE "decide_visualization"
            /\ df' = df_after_exec(df, op)
            /\ log' = [log EXCEPT
                         !.exec_attempts = Bump(@),
                         !.last_exec = execute_pandas_code(state.pandas_code, beh),
                         !.last_beh = beh,
                         !.last_code = state.pandas_code,
                         !.df_touched = @ \/ op # "read",
                         !.seen_df = namespace_df(df).value]
            /\ UNCHANGED <<raised, result, figures, calls>>

\* node retry_code, edge to execute_code (agent.py:76, 203-241)
RetryCode ==
    /\ pc = "retry_code"
    /\ \/ \E content \in CodeReplies :
            /\ state' = retry_code(state, content)
            /\ pc' = "execute_code"
            /\ log' = [Called(log) EXCEPT !.last_reply = content]
            /\ UNCHANGED <<raised, result, df, figures, calls>>
       \/ \E e \in GatewayFaults :
            Raise("retry_code", retry_code_enter(state), Called(log), e)

\* node decide_visualization and its conditional edge (agent.py:78-86, 243-287)
DecideVisualization ==
    /\ pc = "decide_visualization"
    /\ LET seen == [log EXCEPT !.decide_with_error = Truthy(state.error)]
           route(s) == IF should_visualize(s) = "visualize"
                       THEN "generate_visualization"
                       ELSE "format_response"
       IN  IF decide_skips_gateway(state)
           THEN /\ state' = decide_visualization(state, <<>>)
                /\ pc' = route(state')
                /\ log' = seen
                /\ UNCHANGED <<raised, result, df, figures, calls>>
           ELSE \/ \E content \in DecisionReplies :
                     /\ state' = decide_visualization(state, content)
                     /\ pc' = route(state')
                     /\ log' = [Called(seen) EXCEPT !.last_decision = <<content>>]
                     /\ UNCHANGED <<raised, result, df, figures, calls>>
                \/ \E e \in GatewayFaults :
                     Raise("decide_visualization", state, Called(seen), e)

\* node generate_visualization and its conditional edge (agent.py:88-96, 289-422)
GenerateVisualization ==
    /\ pc = "generate_visualization"
    /\ LET entered == [Entered(log) EXCEPT !.viz_steps = Bump(@)]
       IN  IF preview_raises(state)
           THEN Raise("generate_visualization", state, entered, PreviewError(state))
           ELSE \/ \E content \in VizCodeReplies, b \in VizBehaviours,
                        op \in DfOps :
                     LET beh == RunOf(state.query, b)
                     IN  /\ state' = generate_visualization(state, content, beh)
                         /\ pc' = IF should_retry_visualization(state') = "retry"
                                  THEN "retry_visualization"
                                  ELSE "format_response"
                         /\ df' = df_after_exec(df, op)
                         /\ figures' = figures_after_call(figures, beh)
                         /\ log' = [Called(entered) EXCEPT
                                      !.viz_calls = Bump(@),
                                      !.last_viz = execute_visualization_code(
                                                       extract_code(content), beh),
                                      !.last_viz_beh = beh,
                                      !.df_touched = @ \/ op # "read",
                                      !.seen_df = namespace_df(df).value]
                         /\ UNCHANGED <<raised, result, calls>>
                \/ \E e \in GatewayFaults :
                     Raise("generate_visualization", state, Called(entered), e)

\* node retry_visualization, edge to generate_visualization (agent.py:98, 424-427)
RetryVisualization ==
    /\ pc = "retry_visualization"
    /\ state' = retry_visualization(state)
    /\ pc' = "generate_visualization"
    /\ UNCHANGED <<raised, result, log, df, figures, calls>>

\* node format_response, edge to END (agent.py:99, 429-468)
FormatResponse ==
    /\ pc = "format_response"
    /\ IF format_skips_gateway(state)
       THEN /\ state' = format_response(state, "")
            /\ pc' = "END"
            /\ log' = Entered(log)
            /\ UNCHANGED <<raised, result, df, figures, calls>>
       ELSE \/ \E content \in NarrationReplies :
                 /\ state' = format_response(state, content)
                 /\ pc' = "END"
                 /\ log' = Called(Entered(log))
                 /\ UNCHANGED <<raised, result, df, figures, calls>>
            \/ \E e \in GatewayFaults :
                 Raise("format_response", state, Called(Entered(log)), e)

\* graph.invoke returned final_state; process_query returns (agent.py:497-505)
Return ==
    /\ pc = "END"
    /\ result' = result_of(state)
    /\ pc' = "returned"
    /\ UNCHANGED <<state, raised, log, df, figures, calls>>

\* the except clause of process_query (agent.py:507-514)
HandleException ==
    /\ pc = "except"
    /\ result' = result_of_exception(raised)
    /\ pc' = "returned"
    /\ UNCHANGED <<state, raised, log, df, figures, calls>>

Next ==
    \/ PlanAnalysis
    \/ GenerateCode
    \/ ExecuteCode
    \/ RetryCode
    \/ DecideVisualization
    \/ GenerateVisualization
    \/ RetryVisualization
    \/ FormatResponse
    \/ Return
    \/ HandleException

Spec == Init /\ [][Next]_vars

\* Each call the workflow blocks on returns, so a step that can run does run.
FairSpec == Spec /\ WF_vars(Next)

\* ------------------------------------- concurrent visualization sandbox calls
\* Two queries served at once, each inside execute_visualization_code
\* (tools.py:128-176); pyplot's figure registry is the one thing they share.
\* A call is at "idle", "exec", "savefig", "close", "except" or "done".
IdleCall == [pc |-> "idle", beh |-> EmptyDict, outcome |-> EmptyDict]

ConcInit ==
    /\ pc = "serving"
    /\ state = initial_state("")
    /\ raised = ""
    /\ result = None
    /\ log = InitLog
    /\ df = Dataset
    /\ figures = <<>>
    /\ calls = [q \in Queries |-> IdleCall]

workflow == <<pc, state, raised, result, log, df>>

\* the call is made: the namespace is built (tools.py:138-148)
VizCallEnter(q) ==
    /\ calls[q].pc = "idle"
    /\ \E b \in VizBehaviours :
          calls' = [calls EXCEPT ![q] = [@ EXCEPT !.pc = "exec",
                                                  !.beh = RunOf(q, b)]]
    /\ UNCHANGED <<workflow, figures>>

\* exec(viz_code, namespace) (tools.py:151)
VizCallExec(q) ==
    /\ calls[q].pc = "exec"
    /\ figures' = figures \o calls[q].beh.pics
    /\ calls' = [calls EXCEPT ![q].pc = IF calls[q].beh.kind = "raise"
                                        THEN "except"
                                        ELSE "savefig"]
    /\ UNCHANGED workflow

\* plt.savefig and the encoding of the buffer (tools.py:154-157)
VizCallSavefig(q) ==
    /\ calls[q].pc = "savefig"
    /\ figures' = figures_at_savefig(figures)
    /\ calls' = [calls EXCEPT ![q] =
                   IF calls[q].beh.kind = "render_raise"
                   THEN [@ EXCEPT !.pc = "except"]
                   ELSE [@ EXCEPT !.pc = "close",
                                  !.outcome = [success |-> TRUE,
                                               image |-> encode(current_figure(figures)),
                                               error |-> None]]]
    /\ UNCHANGED workflow

\* plt.close('all') and the return of the image (tools.py:158-164)
VizCallClose(q) ==
    /\ calls[q].pc = "close"
    /\ figures' = close_after_savefig(figures)
    /\ calls' = [calls EXCEPT ![q].pc = "done"]
    /\ UNCHANGED workflow

\* the except clause (tools.py:166-176)
VizCallExcept(q) ==
    /\ calls[q].pc = "except"
    /\ figures' = close_in_except(figures)
    /\ calls' = [calls EXCEPT ![q] = [@ EXCEPT !.pc = "done",
                                              !.outcome = [success |-> FALSE,
                                                           image |-> None,
                                                           error |-> error_msg(calls[q].beh)]]]
    /\ UNCHANGED workflow

ConcNext ==
    \/ \E q \in Queries : VizCallEnter(q)
    \/ \E q \in Queries : VizCallExec(q)
    \/ \E q \in Queries : VizCallSavefig(q)
    \/ \E q \in Queries : VizCallClose(q)
    \/ \E q \in Queries : VizCallExcept(q)

ConcSpec == ConcInit /\ [][ConcNext]_vars

\* ------------------------------------------------------------------ properties
\* the last call of execute_pandas_code returned a Failure
LastExecFailed == log.exec_attempts > 0 /\ ~log.last_exec.success

\* the last call of execute_visualization_code returned a Failure
LastVizFailed == log.viz_calls > 0 /\ ~log.last_viz.success

\* the workflow has left the code phase: decide_visualization has been entered
CodePhaseOver ==
    LET later == {"decide_visualization", "generate_visualization",
                  "retry_visualization", "format_response"}
    IN  \/ pc \in later \union {"END"}
        \/ pc = "returned" /\ raised = ""
        \/ log.fault_step \in later

\* the workflow has left the visualization phase after a failed last attempt
VizFailedTerminally ==
    /\ LastVizFailed
    /\ \/ pc \in {"format_response", "END"}
       \/ pc = "returned" /\ raised = ""
       \/ log.fault_step = "format_response"

\* C1: retry_count never exceeds 2 and execute_code runs at most 3 times in one
\* process_query call, whatever the sandbox returns at each attempt.
C1_CodeRetriesBounded ==
    /\ state.retry_count <= 2
    /\ log.exec_attempts <= 3

\* C1 witness: the third execution attempt has failed with both retries used.
C1_Witness ==
    /\ pc = "decide_visualization"
    /\ log.exec_attempts = 3
    /\ state.retry_count = 2
    /\ LastExecFailed

\* C2: visualization_retry_count never exceeds 2 and generate_visualization runs
\* at most 3 times in one process_query call, each run making at most one
\* Gateway call and one visualization sandbox call.
C2_VizRetriesBounded ==
    /\ state.visualization_retry_count <= 2
    /\ log.viz_steps <= 3
    /\ log.viz_calls <= log.viz_steps

\* C2 witness: the third visualization attempt has failed with both retries used.
C2_Witness ==
    /\ pc = "format_response"
    /\ log.viz_steps = 3
    /\ log.viz_calls = 3
    /\ state.visualization_retry_count = 2
    /\ LastVizFailed

\* C3: decide_visualization entered with a non-empty error makes no Gateway
\* call, sets needs_visualization false and is routed to format_response
\* ("skip"); generate_visualization is never entered afterwards in that query.
C3_ErrorSkipsVisualization ==
    /\ [][ (pc = "decide_visualization" /\ Truthy(state.error)) =>
              /\ log'.gateway_calls = log.gateway_calls
              /\ ~state'.needs_visualization
              /\ should_visualize(state') = "skip"
              /\ pc' = "format_response" ]_vars
    /\ [](log.decide_with_error =>
              /\ ~state.needs_visualization
              /\ log.viz_steps = 0
              /\ pc \notin {"generate_visualization", "retry_visualization"})

\* C3 witness: a query that entered decide_visualization with an error has
\* returned without a visualization step.
C3_Witness ==
    /\ pc = "returned"
    /\ log.decide_with_error
    /\ log.exec_attempts = 3
    /\ log.viz_steps = 0

\* C4: every query terminates: process_query returns, through END or through
\* its except clause, given that each call it blocks on returns.
C4_Terminates == <>(pc = "returned")

\* C4 witness: the longest run has returned: three executions, three failed
\* visualization attempts.
C4_Witness ==
    /\ pc = "returned"
    /\ log.exec_attempts = 3
    /\ log.viz_calls = 3
    /\ LastVizFailed

\* C5: an exception raised at any step is caught by process_query, which
\* returns success=false, no visualization and the generic error message.
C5_FaultBecomesFailureResult ==
    /\ raised # "" => pc \in {"except", "returned"}
    /\ (pc = "returned" /\ raised # "") =>
          /\ result.success = FALSE
          /\ result.visualization = None
          /\ result.response = "An unexpected error occurred: " \o raised

\* C5 witness: a fault raised in generate_visualization has been returned as a
\* failure result.
C5_Witness ==
    /\ pc = "returned"
    /\ raised \in GatewayFaults
    /\ log.fault_step = "generate_visualization"
    /\ result.success = FALSE

\* C6: a Gateway fault is not retried: after it no workflow step runs (the
\* only step left is the return of process_query, with success=false), and the
\* retry counters count failed sandbox attempts only, never the fault.
C6_GatewayFaultNotRetried ==
    /\ [](raised # "" =>
              /\ pc \in {"except", "returned"}
              /\ state.retry_count <= log.exec_attempts
              /\ state.visualization_retry_count <= log.viz_calls
              /\ (pc = "returned" => result.success = FALSE))
    /\ [][ raised # "" =>
              /\ pc' = "returned"
              /\ state' = state
              /\ log' = log ]_vars

\* C6 witness: a Gateway fault in retry_code, after a failed execution, has
\* ended the query.
C6_Witness ==
    /\ pc = "returned"
    /\ raised \in GatewayFaults
    /\ log.fault_step = "retry_code"
    /\ log.exec_attempts = 2
    /\ result.success = FALSE

\* C7: when the third execution attempt fails (no Gateway fault), process_query
\* returns the apology template around that attempt's error message, no
\* visualization, and success=false.
C7_TerminalAnalysisFailure ==
    (pc = "returned" /\ raised = "" /\ log.exec_attempts = 3 /\ LastExecFailed) =>
        /\ result.response = ApologyTemplate(log.last_exec.error)
        /\ result.visualization = None
        /\ result.success = FALSE

\* C7 witness: a query whose third attempt left result unset has returned.
C7_Witness ==
    /\ pc = "returned"
    /\ raised = ""
    /\ log.exec_attempts = 3
    /\ LastExecFailed
    /\ log.last_exec.error = NoResultMessage

\* C8 as stated: when the analysis succeeded and all three visualization
\* attempts failed, process_query returns the Gateway's narration with
\* visualization=None and success=true.
C8_AsStated ==
    (pc = "returned" /\ log.viz_calls = 3 /\ LastVizFailed) =>
        /\ result.response \in NarrationReplies
        /\ result.visualization = None
        /\ result.success = TRUE

\* C8 amended: when the analysis succeeded and all three visualization attempts
\* failed, the workflow goes on to format_response; if its Gateway call
\* returns, process_query returns the narration with visualization=None and
\* success=true; if it faults, visualization=None and success=false.
C8_VizFailureStillNarrates ==
    (log.viz_calls = 3 /\ LastVizFailed) =>
        /\ pc \in {"format_response", "END", "except", "returned"}
        /\ log.fault_step \in {"", "format_response"}
        /\ ~Truthy(state.error)
        /\ pc = "END" => state.response \in NarrationReplies
        /\ pc = "returned" =>
              /\ result.visualization = None
              /\ IF raised = ""
                 THEN /\ result.response \in NarrationReplies
                      /\ result.success = TRUE
                 ELSE /\ result.response = UnexpectedMessage(raised)
                      /\ result.success = FALSE

\* C8 witness: such a query has returned its narration with success=true.
C8_Witness ==
    /\ pc = "returned"
    /\ raised = ""
    /\ log.viz_calls = 3
    /\ LastVizFailed
    /\ result.success = TRUE
    /\ result.visualization = None

\* the texts of the dict process_query returned
ResultTexts ==
    {result.response, result.visualization, result.code_executed,
     result.visualization_code}

\* C9 as stated: on terminal visualization failure after a successful analysis
\* the last visualization error is in the result process_query returns.
C9_AsStated ==
    (pc = "returned" /\ raised = "" /\ VizFailedTerminally) =>
        log.last_viz.error \in ResultTexts

\* C9 amended: on terminal visualization failure after a successful analysis
\* the last visualization error stays in the workflow state to the end of the
\* workflow, and the result process_query returns holds it nowhere: not in the
\* response text, and visualization and visualization_code are None.
C9_VizErrorKeptInStateOnly ==
    VizFailedTerminally =>
        /\ state.visualization_error = log.last_viz.error
        /\ (pc = "returned" /\ raised = "") =>
              /\ log.last_viz.error \notin ResultTexts
              /\ result.visualization = None
              /\ result.visualization_code = None

\* C9 witness: a query whose three visualization attempts failed has returned.
C9_Witness ==
    /\ pc = "returned"
    /\ raised = ""
    /\ VizFailedTerminally
    /\ log.viz_calls = 3
    /\ state.visualization_error = "ValueError: shape mismatch\n" \o TracebackText

\* C10 as stated: error is non-empty iff the last execution attempt failed and
\* retry_count has reached 2.
C10_AsStated ==
    Truthy(state.error) <=> (LastExecFailed /\ state.retry_count = 2)

\* C10 amended: error is non-empty iff the last execution attempt failed; once
\* the code phase is over (decide_visualization entered), error is non-empty
\* iff the last execution attempt failed and retry_count has reached 2.
C10_ErrorIffLastAttemptFailed ==
    /\ Truthy(state.error) <=> LastExecFailed
    /\ CodePhaseOver =>
          (Truthy(state.error) <=> (LastExecFailed /\ state.retry_count = 2))

\* C10 witness: the code phase ended with the error of a failed third attempt.
C10_Witness ==
    /\ pc = "format_response"
    /\ Truthy(state.error)
    /\ state.retry_count = 2
    /\ LastExecFailed

\* C11: in every reachable workflow state, needs_visualization true implies
\* error empty.
C11_NeedsVizImpliesNoError == state.needs_visualization => ~Truthy(state.error)

\* C11 witness: a visualization was asked for after an execution that
\* succeeded on a retry.
C11_Witness ==
    /\ pc = "generate_visualization"
    /\ state.needs_visualization
    /\ state.retry_count = 1
    /\ log.exec_attempts = 2

\* C12: each step of retry_code raises retry_count by exactly 1 and each step
\* of retry_visualization raises visualization_retry_count by exactly 1; no
\* other step changes either counter, so neither ever decreases.
C12_CountersMonotone ==
    [][ /\ state'.retry_count =
              state.retry_count + (IF pc = "retry_code" THEN 1 ELSE 0)
        /\ state'.visualization_retry_count =
              state.visualization_retry_count
                  + (IF pc = "retry_visualization" THEN 1 ELSE 0) ]_vars

\* C12 witness: both counters have been raised twice in one query.
C12_Witness ==
    /\ pc = "returned"
    /\ state.retry_count = 2
    /\ state.visualization_retry_count = 2

\* C13: no sandbox call changes the dataset the tools object holds, whatever
\* the generated code does to the name df (rebinding it, dropping or assigning
\* columns), and every later sandbox call binds df to the original data.
C13_DatasetNeverMutated ==
    /\ df = Dataset
    /\ log.seen_df = Dataset

\* C13 witness: generated code has worked on df, and calls of both sandboxes
\* have run in the query.
C13_Witness ==
    /\ log.df_touched
    /\ log.exec_attempts >= 2
    /\ log.viz_calls >= 2
    /\ pc = "returned"

\* C14: an exception raised by generated code in either sandbox comes back as
\* a Failure whose error is "<class>: <message>", a newline and the trace
\* text, never empty; nothing but a Gateway fault ever leaves a node.
C14_SandboxCatchesExceptions ==
    /\ (log.exec_attempts > 0 /\ log.last_beh.kind = "raise") =>
          /\ log.last_exec.success = FALSE
          /\ log.last_exec.error =
                log.last_beh.type \o ": " \o log.last_beh.text \o "\n"
                    \o TracebackText
          /\ log.last_exec.error # ""
    /\ (log.viz_calls > 0 /\ log.last_viz_beh.kind \in {"raise", "render_raise"}) =>
          /\ log.last_viz.success = FALSE
          /\ log.last_viz.error =
                log.last_viz_beh.type \o ": " \o log.last_viz_beh.text \o "\n"
                    \o TracebackText
          /\ log.last_viz.error # ""
    /\ raised # "" => raised \in GatewayFaults

\* C14 witness: generated code raised an exception with an empty message and
\* the workflow went on to retry_code.
C14_Witness ==
    /\ pc = "retry_code"
    /\ log.last_beh.kind = "raise"
    /\ log.last_beh.text = ""
    /\ Truthy(state.error)

\* C15: when execute_visualization_code has returned, on the success path and
\* on the path of an exception in the generated code or in rendering, no
\* figure is open.
C15_FiguresClosedAfterCall == figures = <<>>

\* C15 witness: a call whose code opened a figure and then raised has returned.
C15_Witness ==
    /\ log.viz_calls > 0
    /\ log.last_viz_beh.kind = "raise"
    /\ log.last_viz_beh.pics # <<>>
    /\ pc \in {"retry_visualization", "format_response"}

\* what execute_visualization_code returns for the run beh with no other
\* call in progress
AloneOutcome(beh) ==
    IF beh.kind \in {"raise", "render_raise"}
    THEN [success |-> FALSE, image |-> None, error |-> error_msg(beh)]
    ELSE [success |-> TRUE, image |-> encode(current_figure(beh.pics)),
          error |-> None]

\* C16 as stated: under every interleaving of two visualization sandbox calls
\* each call returns what it would return when run alone (it neither renders
\* nor closes a figure of the other call).
C16_AsStated ==
    \A q \in DOMAIN calls :
        calls[q].pc = "done" => calls[q].outcome = AloneOutcome(calls[q].beh)

\* the contents of the first fenced block of a reply, as C17 reads it: the
\* text between the first fence and the next one, less the tag, which is the
\* rest of the opening fence's line
FirstBlockContents(reply) ==
    LET block == split_1(reply, Fence)
    IN  IF Contains(block, <<"\n">>)
        THEN SubSeq(block, Find(block, <<"\n">>) + 1, Len(block))
        ELSE block

\* C17 as stated: the code extracted from a Gateway reply is the contents of
\* the reply's first fenced block without its tag (surrounding whitespace
\* trimmed), and a reply without a fence is used unchanged.
C17_AsStated ==
    pc = "execute_code" =>
        state.pandas_code =
            IF Contains(log.last_reply, Fence)
            THEN Str(strip(FirstBlockContents(log.last_reply)))
            ELSE Str(log.last_reply)

\* C18 as stated: after every execute_code step error is non-empty exactly
\* when that attempt failed (the sandbox's non-empty message on failure, empty
\* on success even after an earlier failure), and a query whose retry
\* succeeded returns success=true.
C18_AsStated ==
    /\ (log.exec_attempts > 0 /\ pc \in {"retry_code", "decide_visualization"}) =>
          /\ Truthy(state.error) <=> ~log.last_exec.success
          /\ ~log.last_exec.success =>
                state.error = log.last_exec.error /\ state.error # ""
          /\ log.last_exec.success => state.error = ""
    /\ (pc = "returned" /\ log.exec_attempts >= 2 /\ log.last_exec.success) =>
          result.success = TRUE

\* C18 amended: as stated, except that a query whose retry succeeded returns
\* success=true when no later Gateway call faults, and success=false when one
\* does.
C18_ErrorTracksLastAttempt ==
    /\ (log.exec_attempts > 0 /\ pc \in {"retry_code", "decide_visualization"}) =>
          /\ Truthy(state.error) <=> ~log.last_exec.success
          /\ ~log.last_exec.success =>
                state.error = log.last_exec.error /\ state.error # ""
          /\ log.last_exec.success => state.error = ""
    /\ (pc = "returned" /\ log.exec_attempts >= 2 /\ log.last_exec.success) =>
          result.success = (raised = "")

\* C18 witness: a query whose first attempt failed and whose retry succeeded
\* has returned success=true.
C18_Witness ==
    /\ pc = "returned"
    /\ raised = ""
    /\ log.exec_attempts = 2
    /\ log.last_exec.success
    /\ result.success = TRUE

\* C19: a generate_visualization step that returns leaves exactly one of
\* visualization_image and visualization_error non-empty: the image with the
\* error cleared on success, the error with the image cleared on failure; the
\* two are never both non-empty.
C19_ImageXorError ==
    /\ [](~(Truthy(state.visualization_image) /\ Truthy(state.visualization_error)))
    /\ [][ (pc = "generate_visualization"
              /\ pc' \in {"retry_visualization", "format_response"}) =>
              /\ Truthy(state'.visualization_image)
                    # Truthy(state'.visualization_error)
              /\ log'.last_viz.success =>
                    /\ state'.visualization_image = log'.last_viz.image
                    /\ state'.visualization_error = ""
              /\ ~log'.last_viz.success =>
                    /\ state'.visualization_error = log'.last_viz.error
                    /\ state'.visualization_image = "" ]_vars

\* C19 witness: a visualization attempt has succeeded after a failed one.
C19_Witness ==
    /\ pc = "format_response"
    /\ log.viz_calls = 2
    /\ Truthy(state.visualization_image)
    /\ state.visualization_error = ""

\* C20: when the generated code finishes and leaves result None,
\* execute_pandas_code returns a Failure with the no-result message, error is
\* set to it, and the workflow retries exactly while retry_count < 2.
C20_NoResultIsFailure ==
    (/\ log.exec_attempts > 0
     /\ log.last_beh.kind = "none"
     /\ pc \in {"retry_code", "decide_visualization"}) =>
        /\ state.execution_result.success = FALSE
        /\ state.execution_result.error = NoResultMessage
        /\ state.error = NoResultMessage
        /\ pc = "retry_code" <=> state.retry_count < 2

\* C20 witness: a retried attempt left result unset and is retried again.
C20_Witness ==
    /\ pc = "retry_code"
    /\ log.last_beh.kind = "none"
    /\ state.retry_count = 1

\* a reply holds the letters y, e, s in a row, in either case
HoldsYesAnyCase(reply) ==
    \E i \in 1..(Len(reply) - 2) :
        /\ reply[i] \in {"y", "Y"}
        /\ reply[i + 1] \in {"e", "E"}
        /\ reply[i + 2] \in {"s", "S"}

\* C21: when decide_visualization has run with empty error, needs_visualization
\* is true if and only if the Gateway's reply holds YES in any letter case;
\* every other reply makes it false.
C21_YesDecides ==
    (/\ pc \in {"generate_visualization", "format_response"}
     /\ log.last_decision # <<>>
     /\ ~log.decide_with_error) =>
        state.needs_visualization = HoldsYesAnyCase(log.last_decision[1])

\* C21 witness: a lower-case, padded yes was taken as a yes.
C21_Witness ==
    /\ pc = "generate_visualization"
    /\ log.last_decision = << <<" ", "y", "e", "s", ".", "\n">> >>
    /\ state.needs_visualization

\* C22: one query makes at most 9 Gateway calls (at most 2 of them in
\* retry_code and at most 3 in generate_visualization); once the third
\* execution attempt has failed exactly 4 calls have been made and none is
\* made afterwards.
C22_GatewayCallsBounded ==
    /\ log.gateway_calls <= 9
    /\ state.retry_count <= 2
    /\ log.viz_calls <= log.viz_steps /\ log.viz_steps <= 3
    /\ (log.exec_attempts = 3 /\ LastExecFailed) => log.gateway_calls = 4

\* C22 witness: a query has returned after 9 Gateway calls.
C22_Witness ==
    /\ pc = "returned"
    /\ raised = ""
    /\ log.gateway_calls = 9
    /\ state.retry_count = 2
    /\ log.viz_steps = 3

\* the nodes from decide_visualization on, and what follows them
AfterCodePhase ==
    {"decide_visualization", "generate_visualization", "retry_visualization",
     "format_response", "END", "except", "returned"}

\* C23: once decide_visualization has been entered, execute_code and
\* retry_code are never entered again, and error, execution_result,
\* pandas_code and retry_count stay as they are through decide_visualization,
\* generate_visualization, retry_visualization and format_response.
C23_PhasesNeverInterleave ==
    [][ (pc \in AfterCodePhase /\ log.fault_step \notin
             {"plan_analysis", "generate_code", "retry_code"}) =>
            /\ pc' \in AfterCodePhase
            /\ state'.error = state.error
            /\ state'.execution_result = state.execution_result
            /\ state'.pandas_code = state.pandas_code
            /\ state'.retry_count = state.retry_count ]_vars

\* C23 witness: the visualization phase ran to its last retry after a retried
\* code phase.
C23_Witness ==
    /\ pc = "format_response"
    /\ state.retry_count = 1
    /\ state.visualization_retry_count = 2
    /\ log.viz_calls = 3

\* C24: when a query completes without a Gateway fault, the code_executed it
\* returns is the code of the last execution attempt and execution_result is
\* the outcome of running that code; a retry_code step that replaces
\* pandas_code is followed by execute_code.
C24_CodeExecutedIsLastAttempt ==
    /\ []((pc = "returned" /\ raised = "") =>
            /\ result.code_executed = log.last_code
            /\ state.pandas_code = log.last_code
            /\ state.execution_result = log.last_exec)
    /\ [][ (pc = "retry_code" /\ state'.pandas_code # state.pandas_code) =>
              pc' = "execute_code" ]_vars

\* C24 witness: a query whose retry replaced the code has returned the
\* replacement and its outcome.
C24_Witness ==
    /\ pc = "returned"
    /\ raised = ""
    /\ log.exec_attempts = 2
    /\ result.code_executed = "r=2"
    /\ log.last_exec.success

\* C25: in every returned result, visualization_code is non-null only if
\* visualization is non-null, and visualization is non-null only if success
\* is true; the image returned is the one of the last visualization attempt.
C25_VisualizationOnlyWithSuccess ==
    pc = "returned" =>
        /\ result.visualization_code # None => result.visualization # None
        /\ result.visualization # None =>
              /\ result.success = TRUE
              /\ log.viz_calls > 0 /\ log.last_viz.success
              /\ result.visualization = log.last_viz.image

\* C25 witness: a query whose visualization failed on every attempt has
\* returned neither the visualization code nor an image.
C25_Witness ==
    /\ pc = "returned"
    /\ raised = ""
    /\ VizFailedTerminally
    /\ Truthy(state.visualization_code)
    /\ result.visualization_code = None
    /\ result.visualization = None

====
